---------------------------- MODULE Spec2Model ----------------------------
(***************************************************************************)
(* The object write pipeline of moray (lib/objects/put.js): index          *)
(* projection, content-derived etags, the pre/post hook chains and the     *)
(* insert/update decision, run inside one transaction per request.         *)
(*                                                                         *)
(* Strings are sequences of one-character strings, so that String(v),      *)
(* parseInt, JSON.stringify and CRC-32 are computed, not assumed.          *)
(***************************************************************************)
EXTENDS Integers, Sequences, FiniteSets, TLC

(***************************************************************************)
(* Bounds of the model.                                                    *)
(***************************************************************************)
\* longest pre- or post-chain of a bucket
MaxChain == 2

(***************************************************************************)
(* Characters and strings.                                                 *)
(***************************************************************************)
\* the printable ASCII characters, code 32 first
Ascii ==
  << " ", "!", "\"", "#", "$", "%", "&", "'", "(", ")", "*", "+", ",", "-", ".", "/",
     "0", "1", "2", "3", "4", "5", "6", "7", "8", "9", ":", ";", "<", "=", ">", "?",
     "@", "A", "B", "C", "D", "E", "F", "G", "H", "I", "J", "K", "L", "M", "N", "O",
     "P", "Q", "R", "S", "T", "U", "V", "W", "X", "Y", "Z", "[", "\\", "]", "^", "_",
     "grave", "a", "b", "c", "d", "e", "f", "g", "h", "i", "j", "k", "l", "m", "n", "o",
     "p", "q", "r", "s", "t", "u", "v", "w", "x", "y", "z", "{", "|", "}", "~" >>

\* the control characters a string may hold: tab, line feed, form feed,
\* carriage return
Controls == [c \in {"\t", "\n", "\f", "\r"} |->
               CASE c = "\t" -> 9 [] c = "\n" -> 10 [] c = "\f" -> 12 [] c = "\r" -> 13]

\* String.prototype.charCodeAt for one character
CharCode(c) ==
  IF c \in DOMAIN Controls THEN Controls[c]
  ELSE 31 + (CHOOSE i \in 1..Len(Ascii) : Ascii[i] = c)

Digits == <<"0", "1", "2", "3", "4", "5", "6", "7", "8", "9">>

IsDigit(c) == \E i \in 1..10 : Digits[i] = c

DigitVal(c) == (CHOOSE i \in 1..10 : Digits[i] = c) - 1

RECURSIVE NatToStr(_)
\* the decimal digits of a natural number
NatToStr(n) ==
  IF n < 10 THEN <<Digits[n + 1]>>
  ELSE NatToStr(n \div 10) \o <<Digits[(n % 10) + 1]>>

\* Number.prototype.toString for an integer
NumToStr(n) == IF n < 0 THEN <<"-">> \o NatToStr(-n) ELSE NatToStr(n)

RECURSIVE Flatten(_)
\* the concatenation of a sequence of strings
Flatten(ss) == IF ss = <<>> THEN <<>> ELSE Head(ss) \o Flatten(Tail(ss))

RECURSIVE Join(_, _)
\* Array.prototype.join
Join(ss, sep) ==
  IF ss = <<>> THEN <<>>
  ELSE IF Len(ss) = 1 THEN ss[1]
  ELSE ss[1] \o sep \o Join(Tail(ss), sep)

(***************************************************************************)
(* JavaScript values.  A document is a function from some of FieldOrder's   *)
(* names to values; a field the document lacks reads as undefined.         *)
(***************************************************************************)
Undefined == [t |-> "undefined"]
Null == [t |-> "null"]
Bool(b) == [t |-> "boolean", b |-> b]
Num(n) == [t |-> "number", n |-> n]
Str(s) == [t |-> "string", s |-> s]
Arr(a) == [t |-> "array", a |-> a]
\* a plain nested object, {}
Obj == [t |-> "object"]

\* the typeof operator
TypeOf(v) == IF v.t \in {"null", "array", "object"} THEN "object" ELSE v.t

\* v + '' for a scalar
ToStr(v) ==
  CASE v.t = "boolean" -> (IF v.b THEN <<"t", "r", "u", "e">> ELSE <<"f", "a", "l", "s", "e">>)
    [] v.t = "number" -> NumToStr(v.n)
    [] v.t = "string" -> v.s

\* the property names of documents, in the order their properties were set
FieldOrder == <<"email", "age", "tag", "flag">>

FieldChars ==
  [email |-> <<"e", "m", "a", "i", "l">>, age |-> <<"a", "g", "e">>,
   tag |-> <<"t", "a", "g">>, flag |-> <<"f", "l", "a", "g">>,
   _id |-> <<"_", "i", "d">>]

\* object[k]
Get(object, k) == IF k \in DOMAIN object THEN object[k] ELSE Undefined

\* one character of a string as JSON.stringify writes it: the double quote,
\* the backslash and the control characters are escaped
EscapeChar(c) ==
  CASE c = "\"" -> <<"\\", "\"">>
    [] c = "\\" -> <<"\\", "\\">>
    [] c = "\t" -> <<"\\", "t">>
    [] c = "\n" -> <<"\\", "n">>
    [] c = "\f" -> <<"\\", "f">>
    [] c = "\r" -> <<"\\", "r">>
    [] OTHER -> <<c>>

\* JSON.stringify of a string
Quote(s) == <<"\"">> \o Flatten([i \in 1..Len(s) |-> EscapeChar(s[i])]) \o <<"\"">>

RECURSIVE StringifyValue(_)
\* JSON.stringify of a value that is an array element or a property value
StringifyValue(v) ==
  CASE v.t = "undefined" -> <<"n", "u", "l", "l">>
    [] v.t = "null" -> <<"n", "u", "l", "l">>
    [] v.t = "boolean" -> ToStr(v)
    [] v.t = "number" -> ToStr(v)
    [] v.t = "string" -> Quote(v.s)
    [] v.t = "array" ->
         <<"[">> \o Join([i \in 1..Len(v.a) |-> StringifyValue(v.a[i])], <<",">>) \o <<"]">>
    [] v.t = "object" -> <<"{", "}">>

RECURSIVE SelectPresent(_, _)
\* the names of order that the document holds with a value other than undefined
SelectPresent(order, object) ==
  IF order = <<>> THEN <<>>
  ELSE (IF Get(object, Head(order)).t # "undefined" THEN <<Head(order)>> ELSE <<>>)
         \o SelectPresent(Tail(order), object)

\* JSON.stringify of a document
Stringify(object) ==
  LET ks == SelectPresent(FieldOrder \o <<"_id">>, object)
      member(k) == Quote(FieldChars[k]) \o <<":">> \o StringifyValue(object[k])
  IN <<"{">> \o Join([i \in 1..Len(ks) |-> member(ks[i])], <<",">>) \o <<"}">>

(***************************************************************************)
(* CRC-32 (IEEE 802.3, reflected).  A 32-bit word is held as its two       *)
(* 16-bit halves <<hi, lo>>.                                               *)
(***************************************************************************)
RECURSIVE XorN(_, _, _)
\* the bitwise exclusive or of two naturals below 2^n
XorN(a, b, n) ==
  IF n = 0 THEN 0
  ELSE ((a + b) % 2) + 2 * XorN(a \div 2, b \div 2, n - 1)

Xor32(v, w) == <<XorN(v[1], w[1], 16), XorN(v[2], w[2], 16)>>

\* v >>> 1
ShiftRight1(v) == <<v[1] \div 2, (v[2] \div 2) + 32768 * (v[1] % 2)>>

\* 0xFFFFFFFF
AllOnes == <<65535, 65535>>

\* 0xEDB88320
CrcPoly == <<60856, 33568>>

RECURSIVE CrcBits(_, _)
\* n rounds of the bitwise CRC step (the test on w2 has it computed before the
\* next round, not carried into it unevaluated)
CrcBits(w, n) ==
  IF n = 0 THEN w
  ELSE LET w2 == IF w[2] % 2 = 1 THEN Xor32(ShiftRight1(w), CrcPoly) ELSE ShiftRight1(w)
       IN IF w2[1] >= 0 THEN CrcBits(w2, n - 1) ELSE w2

RECURSIVE CrcBytes(_, _)
CrcBytes(w, s) ==
  IF s = <<>> THEN w
  ELSE LET w2 == CrcBits(Xor32(w, <<0, CharCode(Head(s))>>), 8)
       IN IF w2[1] >= 0 THEN CrcBytes(w2, Tail(s)) ELSE w2

\* crc.crc32 of a string
Crc32(s) == Xor32(CrcBytes(AllOnes, s), AllOnes)

HexDigits == <<"0", "1", "2", "3", "4", "5", "6", "7", "8", "9", "A", "B", "C", "D", "E", "F">>

\* four uppercase hexadecimal digits of a natural below 2^16
Hex16(n) ==
  <<HexDigits[1 + (n \div 4096)], HexDigits[1 + ((n \div 256) % 16)],
    HexDigits[1 + ((n \div 16) % 16)], HexDigits[1 + (n % 16)]>>

\* crc.hex32: eight uppercase hexadecimal digits
Hex32(w) == Hex16(w[1]) \o Hex16(w[2])

(***************************************************************************)
(* Errors.  NoErr is the absent err argument of a callback.                *)
(***************************************************************************)
NoErr == [name |-> "none"]

Err(name) == [name |-> name]

InvalidIndexTypeError(k, t) == [name |-> "InvalidIndexTypeError", k |-> k, t |-> t]

(***************************************************************************)
(* The index projector.                                                    *)
(***************************************************************************)
\* Object.keys of an object whose own properties are among FieldOrder
Keys(object) == SelectSeq(FieldOrder, LAMBDA k : k \in DOMAIN object)

\* object[k] = s
Put(object, k, s) ==
  [f \in DOMAIN object \cup {k} |-> IF f = k THEN s ELSE object[f]]

RECURSIVE _index(_, _, _, _)
RECURSIVE _indexEach(_, _, _, _)
\* an _index that throws for null as it does for a plain object
_indexNullThrows(ndx, k, v, t) ==
  IF v.t # "undefined" /\ TypeOf(v) # t /\ TypeOf(v) = "object"
  THEN IF v.t = "array" THEN _indexEach(ndx, k, v.a, t)
       ELSE [ndx |-> ndx, threw |-> TRUE]
  ELSE IF TypeOf(v) \in {"boolean", "string", "number"}
       THEN [ndx |-> Put(ndx, k, ToStr(v)), threw |-> FALSE]
       ELSE [ndx |-> ndx, threw |-> FALSE]

\* _index(k, v, t) acting on ndx: the ndx it leaves, and whether it threw
_index(ndx, k, v, t) ==
  IF v.t # "undefined" /\ TypeOf(v) # t /\ TypeOf(v) = "object"
  THEN IF v.t = "array" THEN _indexEach(ndx, k, v.a, t)
       ELSE IF v.t = "null" THEN [ndx |-> ndx, threw |-> FALSE]
       ELSE [ndx |-> ndx, threw |-> TRUE]
  ELSE IF TypeOf(v) \in {"boolean", "string", "number"}
       THEN [ndx |-> Put(ndx, k, ToStr(v)), threw |-> FALSE]
       ELSE [ndx |-> ndx, threw |-> FALSE]

\* v.forEach(function (v2) { _index(k, v2, t); })
_indexEach(ndx, k, a, t) ==
  IF a = <<>> THEN [ndx |-> ndx, threw |-> FALSE]
  ELSE LET r == _index(ndx, k, Head(a), t)
       IN IF r.threw THEN r ELSE _indexEach(r.ndx, k, Tail(a), t)

RECURSIVE _indexKeys(_, _, _, _)
\* Object.keys(schema).forEach(...): the error thrown, if any, and ndx
_indexKeys(ndx, ks, schema, object) ==
  IF ks = <<>> THEN [err |-> NoErr, ndx |-> ndx]
  ELSE LET k == Head(ks)
           r == _index(ndx, k, Get(object, k), schema[k].type)
       IN IF r.threw THEN [err |-> InvalidIndexTypeError(k, schema[k].type), ndx |-> <<>>]
          ELSE _indexKeys(r.ndx, Tail(ks), schema, object)

\* the empty object {}
EmptyObject == <<>>

\* a projector that takes its keys from the document, not from the schema
_indexObjectOfDocument(schema, object) ==
  [err |-> NoErr,
   ndx |-> [k \in {f \in DOMAIN object : object[f].t \in {"boolean", "string", "number"}} |->
              ToStr(object[k])]]

_indexObject(schema, object) ==
  IF Len(Keys(schema)) = 0 THEN [err |-> NoErr, ndx |-> EmptyObject]
  ELSE _indexKeys(EmptyObject, Keys(schema), schema, object)

(***************************************************************************)
(* The documents of the model.                                             *)
(***************************************************************************)
DocA == [email |-> Str(<<"a", "@", "b", ".", "c", "o", "m">>)]
DocC == [email |-> Str(<<"c", "@", "d", ".", "c", "o", "m">>)]
DocAge == [age |-> Num(30)]
DocThirty == [age |-> Str(<<"t", "h", "i", "r", "t", "y">>)]
DocTags == [tag |-> Arr(<<Str(<<"a">>), Str(<<"b">>)>>)]
DocObj == [email |-> Obj]

Docs == {DocA, DocC, DocAge, DocThirty, DocTags, DocObj}

\* the documents a pre-hook may put in its cookie
HookDocs == {DocC}

\* documents for the projector and the statement builder: every declared type,
\* the empty string, zero and false, nulls, and arrays ending in null or not
DocFull == [email |-> Str(<<"a", "@", "b", ".", "c", "o", "m">>), age |-> Num(30),
            flag |-> Bool(TRUE)]
DocEmpty == [email |-> Str(<<>>), age |-> Num(0), flag |-> Bool(FALSE)]
DocNulls == [email |-> Null, age |-> Null, tag |-> Null, flag |-> Null]
DocTagsNull == [tag |-> Arr(<<Str(<<"a">>), Null>>)]
DocTagsObj == [tag |-> Arr(<<Str(<<"a">>), Obj>>)]
\* arrays with an element of another scalar type, with a nested array, with an
\* empty nested array
DocTagsNum == [tag |-> Arr(<<Str(<<"a">>), Num(5)>>)]
DocTagsNested == [tag |-> Arr(<<Str(<<"a">>), Arr(<<Str(<<"b">>), Str(<<"c">>)>>)>>)]
DocTagsHollow == [tag |-> Arr(<<Str(<<"a">>), Arr(<<>>)>>)]
\* a string with characters that JSON.stringify escapes
DocQuote == [email |-> Str(<<"q", "\"", "t", "\\", "\n">>)]
\* a number written as a string after white space that is not a blank
DocTabAge == [age |-> Str(<<" ", "\t", "1", "2">>)]

BuildDocs ==
  {DocA, DocFull, DocEmpty, DocNulls, DocTags, DocTagsNull, DocTagsObj, DocThirty,
   DocQuote, DocTabAge, DocTagsNum, DocTagsNested, DocTagsHollow}

\* the etags of the serialized documents, each computed once
EtagTable ==
  LET pairs == {<<Stringify(d), Hex32(Crc32(Stringify(d)))>> : d \in Docs \cup HookDocs \cup BuildDocs}
  IN [s \in {pr[1] : pr \in pairs} |-> (CHOOSE pr \in pairs : pr[1] = s)[2]]

(***************************************************************************)
(* The statement builder.  A bound parameter is tagged with what it is;    *)
(* a statement is its column list, its placeholders and its bound values.  *)
(***************************************************************************)
PKey(k) == [p |-> "key", k |-> k]
PText(s) == [p |-> "text", s |-> s]
PInt(n) == [p |-> "int", n |-> n]
PNaN == [p |-> "NaN"]
\* the value of _now()
PTime == [p |-> "time"]
\* the SQL NULL
PNull == [p |-> "null"]

\* crc.hex32(crc.crc32(req._value))
_createEtag(req) ==
  IF req._value \in DOMAIN EtagTable THEN EtagTable[req._value]
  ELSE Hex32(Crc32(req._value))

\* String.prototype.toUpperCase on one character
UpperChar(c) ==
  LET code == CharCode(c) IN IF code >= 97 /\ code <= 122 THEN Ascii[code - 63] ELSE c

toUpperCase(s) == [i \in 1..Len(s) |-> UpperChar(s[i])]

RECURSIVE DigitsValue(_, _)
\* the value of the leading decimal digits of s, after acc
DigitsValue(s, acc) ==
  IF s = <<>> \/ ~IsDigit(Head(s)) THEN acc
  ELSE DigitsValue(Tail(s), 10 * acc + DigitVal(Head(s)))

\* the white space parseInt skips at the head of its string
WhiteSpace == {" "} \cup DOMAIN Controls

RECURSIVE SkipSpaces(_)
SkipSpaces(s) == IF s # <<>> /\ Head(s) \in WhiteSpace THEN SkipSpaces(Tail(s)) ELSE s

\* parseInt(s, 10), as the parameter it binds
parseInt(s) ==
  LET t == SkipSpaces(s)
      neg == t # <<>> /\ Head(t) = "-"
      u == IF t # <<>> /\ Head(t) \in {"-", "+"} THEN Tail(t) ELSE t
  IN IF u = <<>> \/ ~IsDigit(Head(u)) THEN PNaN
     ELSE PInt(IF neg THEN 0 - DigitsValue(u, 0) ELSE DigitsValue(u, 0))

RECURSIVE InsertColumns(_, _, _)
\* Object.keys(req.index).forEach(...) of insert: st holds values, the column
\* names of keyStr and the placeholder numbers of valStr
InsertColumns(st, ks, index) ==
  IF ks = <<>> THEN st
  ELSE LET values == Append(st.values, PText(index[Head(ks)]))
       IN InsertColumns([values |-> values,
                         columns |-> Append(st.columns, Head(ks)),
                         placeholders |-> Append(st.placeholders, Len(values))],
                        Tail(ks), index)

\* the statement insert hands to pg.query
InsertStatement(req) ==
  LET st == InsertColumns(
              [values |-> <<PKey(req.key), PText(req._value), PText(_createEtag(req)), PTime>>,
               columns |-> <<"_key", "_value", "_etag", "_mtime">>,
               placeholders |-> <<1, 2, 3, 4>>],
              Keys(req.index), req.index)
  IN [op |-> "insert", table |-> req.bucket.name, columns |-> st.columns,
      placeholders |-> st.placeholders, values |-> st.values]

\* if (req.index[k])
Truthy(index, k) == k \in DOMAIN index /\ index[k] # <<>>

RECURSIVE UpdateColumns(_, _, _, _)
\* Object.keys(req.bucket.index).forEach(...) of update: st holds vals and the
\* assignments of extraStr, each a column with a placeholder number or NULL
UpdateColumns(st, ks, schema, index) ==
  IF ks = <<>> THEN st
  ELSE LET k == Head(ks)
           t == schema[k].type
           next ==
             IF Truthy(index, k)
             THEN [sets |-> Append(st.sets, [col |-> k, null |-> FALSE, ph |-> Len(st.vals) + 1]),
                   vals |-> CASE t = "boolean" -> Append(st.vals, PText(toUpperCase(index[k])))
                              [] t = "number" -> Append(st.vals, parseInt(index[k]))
                              [] t = "string" -> Append(st.vals, PText(index[k]))
                              [] OTHER -> st.vals]
             ELSE [sets |-> Append(st.sets, [col |-> k, null |-> TRUE, ph |-> 0]),
                   vals |-> st.vals]
       IN UpdateColumns(next, Tail(ks), schema, index)

\* the statement update hands to pg.query; the key is part of its text
UpdateStatement(req) ==
  LET st == UpdateColumns(
              [sets |-> <<[col |-> "_value", null |-> FALSE, ph |-> 1],
                          [col |-> "_etag", null |-> FALSE, ph |-> 2]>>,
               vals |-> <<PText(req._value), PText(_createEtag(req))>>],
              Keys(req.bucket.index), req.bucket.index, req.index)
  IN [op |-> "update", table |-> req.bucket.name, sets |-> st.sets,
      mtime |-> PTime, whereKey |-> req.key, values |-> st.vals]

(***************************************************************************)
(* The data engine: one table per bucket, a unique key, a generated _id,   *)
(* one column per field of the bucket's index schema; row locks held to    *)
(* the end of the transaction.                                             *)
(***************************************************************************)
NoRow == [exists |-> FALSE]

\* whether every placeholder of a statement has a bound value
Bindable(placeholders, values) ==
  \A i \in 1..Len(placeholders) : placeholders[i] <= Len(values)

\* the position of a column in a column list, 0 when it is not there
Position(columns, c) ==
  IF \E i \in 1..Len(columns) : columns[i] = c
  THEN CHOOSE i \in 1..Len(columns) : columns[i] = c
  ELSE 0

\* the row an INSERT statement creates, in a table with the index columns cols
InsertedRow(stmt, id, cols) ==
  [exists |-> TRUE, _id |-> id,
   _value |-> stmt.values[stmt.placeholders[Position(stmt.columns, "_value")]].s,
   _etag |-> stmt.values[stmt.placeholders[Position(stmt.columns, "_etag")]].s,
   cols |-> [c \in cols |->
               IF Position(stmt.columns, c) = 0 THEN PNull
               ELSE stmt.values[stmt.placeholders[Position(stmt.columns, c)]]]]

\* the row an UPDATE statement leaves of the row old
UpdatedRow(stmt, old) ==
  LET assigned(c) == \E i \in 1..Len(stmt.sets) : stmt.sets[i].col = c
      set(c) == stmt.sets[CHOOSE i \in 1..Len(stmt.sets) : stmt.sets[i].col = c]
      val(c) == IF set(c).null THEN PNull ELSE stmt.values[set(c).ph]
  IN [exists |-> TRUE, _id |-> old._id,
      _value |-> val("_value").s, _etag |-> val("_etag").s,
      cols |-> [c \in DOMAIN old.cols |-> IF assigned(c) THEN val(c) ELSE old.cols[c]]]

(***************************************************************************)
(* The requests.                                                           *)
(***************************************************************************)
Procs == {"p1", "p2"}

NoProc == "none"

KeySet == {"u1", "u2"}

BucketName == "b"

\* an absent opts.etag
NoEtag == <<>>

\* the pipeline with the etag checked after the statements
FuncsCheckLast ==
  <<"loadBucket", "selectForUpdate", "runPreChain", "indexObject",
    "insert", "update", "checkEtag", "runPostChain">>

\* the pipeline with the etag checked before the row is read
FuncsCheckFirst ==
  <<"loadBucket", "checkEtag", "selectForUpdate", "runPreChain",
    "indexObject", "insert", "update", "runPostChain">>

\* the pipeline with the projection after the statements
FuncsProjectLast ==
  <<"loadBucket", "selectForUpdate", "runPreChain", "checkEtag",
    "insert", "update", "indexObject", "runPostChain">>

\* the steps of the pipeline of _put, in their order
Funcs ==
  <<"loadBucket", "selectForUpdate", "runPreChain", "checkEtag",
    "indexObject", "insert", "update", "runPostChain">>

\* what a hook of a pre-chain may do with its cookie, and a hook of a post-chain
Pass == [do |-> "pass"]
Fail == [do |-> "fail"]
SetKey(k) == [do |-> "key", key |-> k]
SetValue(v) == [do |-> "value", value |-> v]

VARIABLES
  bucket,   \* the bucket as the bucket manager stores it
  table,    \* the committed rows of the bucket's table, by key
  lock,     \* the transaction holding the row lock of each key
  nextId,   \* the sequence of the _id column
  call,     \* the arguments of each client's putObject call
  pc,       \* where each request is
  step,     \* the index in Funcs of the step a request's pipeline is at
  req,      \* the arg of each request's pipeline
  perr,     \* the error handed to pipelineCallback
  tx,       \* each request's transaction: its state, its writes, its ends
  res,      \* what each request passed to res.end, in order
  trace,    \* the steps each request's pipeline has called, in order
  stmts,    \* the statements each request has handed to pg.query, in order
  hooks,    \* how many hooks of each chain each request has called, and which failed
  cookie    \* the cookie of the hook chain a request is running

vars ==
  <<bucket, table, lock, nextId, call, pc, step, req, perr, tx, res, trace,
    stmts, hooks, cookie>>

NoCall == [active |-> FALSE]

NoReq == [active |-> FALSE]

\* no hook chain running
NoCookie == [active |-> FALSE]

NoTx == [state |-> "none", writes |-> [k \in KeySet |-> NoRow], ends |-> <<>>]

(***************************************************************************)
(* The schemas and buckets of the model.                                   *)
(***************************************************************************)
Schemas ==
  {EmptyObject, [email |-> [type |-> "string"]], [age |-> [type |-> "number"]],
   [tag |-> [type |-> "string"]]}

\* a chain of n hooks
HookChain(n) == [i \in 1..n |-> i]

Buckets ==
  {[name |-> BucketName, index |-> s, pre |-> HookChain(n), post |-> HookChain(m)] :
     s \in Schemas, n \in 0..MaxChain, m \in 0..MaxChain}

(***************************************************************************)
(* vasync.pipeline: the steps run in order, each after the one before it   *)
(* called back; the first err ends the pipeline and goes to its callback.  *)
(***************************************************************************)
At(p, f) == pc[p] = "pipeline" /\ Funcs[step[p]] = f

Called(p, f) == trace' = [trace EXCEPT ![p] = Append(@, f)]

\* a pipeline that ends on an err without calling its callback
ContinueDropsErr(p, err) ==
  IF err.name = "none" /\ step[p] < Len(Funcs)
  THEN /\ step' = [step EXCEPT ![p] = @ + 1]
       /\ pc' = [pc EXCEPT ![p] = "pipeline"]
       /\ UNCHANGED perr
  ELSE /\ pc' = [pc EXCEPT ![p] = IF err.name = "none" THEN "callback" ELSE "done"]
       /\ perr' = [perr EXCEPT ![p] = err]
       /\ UNCHANGED step

Continue(p, err) ==
  IF err.name = "none" /\ step[p] < Len(Funcs)
  THEN /\ step' = [step EXCEPT ![p] = @ + 1]
       /\ pc' = [pc EXCEPT ![p] = "pipeline"]
       /\ UNCHANGED perr
  ELSE /\ pc' = [pc EXCEPT ![p] = "callback"]
       /\ perr' = [perr EXCEPT ![p] = err]
       /\ UNCHANGED step

\* one hook acting on its cookie
Hook(c, effect) ==
  CASE effect.do = "key" -> [c EXCEPT !.key = effect.key]
    [] effect.do = "value" -> [c EXCEPT !.value = effect.value]
    [] OTHER -> c

(***************************************************************************)
(* putObject.                                                              *)
(***************************************************************************)
\* a _put that goes on to run the pipeline after res.end(startErr)
_putNoReturn(p) ==
  /\ pc[p] = "idle"
  /\ call[p].active
  /\ \E startErr \in {NoErr, Err("NoDatabaseError")} :
       /\ res' = IF startErr.name # "none"
                 THEN [res EXCEPT ![p] = Append(@, [err |-> startErr])]
                 ELSE res
       /\ tx' = IF startErr.name # "none" THEN tx ELSE [tx EXCEPT ![p].state = "open"]
       /\ req' = [req EXCEPT ![p] =
                    [active |-> TRUE,
                     bucket |-> [name |-> call[p].b],
                     etag |-> call[p].opts.etag,
                     key |-> call[p].k,
                     value |-> call[p].v,
                     _value |-> call[p].opts._value,
                     previous |-> NoRow,
                     index |-> EmptyObject]]
       /\ pc' = [pc EXCEPT ![p] = "pipeline"]
       /\ step' = [step EXCEPT ![p] = 1]
  /\ UNCHANGED <<bucket, table, lock, nextId, call, perr, trace, stmts, hooks, cookie>>

\* manatee.start called back: with startErr, or with a transaction
_put(p) ==
  /\ pc[p] = "idle"
  /\ call[p].active
  /\ \E startErr \in {NoErr, Err("NoDatabaseError")} :
       IF startErr.name # "none"
       THEN /\ res' = [res EXCEPT ![p] = Append(@, [err |-> startErr])]
            /\ pc' = [pc EXCEPT ![p] = "done"]
            /\ UNCHANGED <<tx, req, step>>
       ELSE /\ tx' = [tx EXCEPT ![p].state = "open"]
            /\ req' = [req EXCEPT ![p] =
                         [active |-> TRUE,
                          bucket |-> [name |-> call[p].b],
                          etag |-> call[p].opts.etag,
                          key |-> call[p].k,
                          value |-> call[p].v,
                          _value |-> call[p].opts._value,
                          previous |-> NoRow,
                          index |-> EmptyObject]]
            /\ pc' = [pc EXCEPT ![p] = "pipeline"]
            /\ step' = [step EXCEPT ![p] = 1]
            /\ UNCHANGED res
  /\ UNCHANGED <<bucket, table, lock, nextId, call, perr, trace, stmts, hooks, cookie>>

\* common.loadBucket: req.bucket becomes the stored bucket, or the load fails
loadBucket(p) ==
  /\ At(p, "loadBucket")
  /\ Called(p, "loadBucket")
  /\ \E err \in {NoErr, Err("BucketNotFoundError")} :
       /\ req' = IF err.name = "none" THEN [req EXCEPT ![p].bucket = bucket] ELSE req
       /\ Continue(p, err)
  /\ UNCHANGED <<bucket, table, lock, nextId, call, tx, res, stmts, hooks, cookie>>

\* common.selectForUpdate: SELECT ... WHERE _key = req.key FOR UPDATE waits for
\* the row lock, takes it and leaves the row, if any, in req.previous
selectForUpdate(p) ==
  /\ At(p, "selectForUpdate")
  /\ Called(p, "selectForUpdate")
  /\ LET k == req[p].key
     IN /\ table[k].exists => lock[k] \in {NoProc, p}
        /\ \E err \in {NoErr, Err("DbError")} :
             /\ IF err.name = "none"
                THEN /\ req' = [req EXCEPT ![p].previous = table[k]]
                     /\ lock' = IF table[k].exists THEN [lock EXCEPT ![k] = p] ELSE lock
                ELSE UNCHANGED <<req, lock>>
             /\ Continue(p, err)
  /\ UNCHANGED <<bucket, table, nextId, call, tx, res, stmts, hooks, cookie>>

\* the cookie runPreChain makes for the hooks
PreCookie(r) ==
  [active |-> TRUE, bucket |-> r.bucket.name, key |-> r.key,
   schema |-> r.bucket.index, value |-> r.value]

\* a callback of the chain that goes on as if no hook had failed
PreChainIgnoresErr(r, c, err) ==
  [err |-> NoErr,
   req |-> [r EXCEPT !.key = c.key, !.value = c.value, !._value = Stringify(c.value)]]

\* function (err) given to vasync.pipeline by runPreChain: the err it hands to
\* cb and what it leaves of req, for the cookie c the hooks left
PreChainCallback(r, c, err) ==
  IF err.name # "none" THEN [err |-> err, req |-> r]
  ELSE [err |-> NoErr,
        req |-> [r EXCEPT !.key = c.key, !.value = c.value, !._value = Stringify(c.value)]]

PreEffects == {Pass, Fail} \cup {SetKey(k) : k \in KeySet} \cup {SetValue(v) : v \in HookDocs}

\* runPreChain is called: cb() at once for an empty chain; otherwise the cookie
\* is made, the first hook is called and runPreChain returns
runPreChain(p) ==
  /\ At(p, "runPreChain")
  /\ Called(p, "runPreChain")
  /\ IF Len(req[p].bucket.pre) = 0
     THEN /\ Continue(p, NoErr)
          /\ UNCHANGED <<cookie, hooks>>
     ELSE /\ cookie' = [cookie EXCEPT ![p] = PreCookie(req[p])]
          /\ hooks' = [hooks EXCEPT ![p].pre = 1]
          /\ pc' = [pc EXCEPT ![p] = "prechain"]
          /\ UNCHANGED <<step, perr>>
  /\ UNCHANGED <<bucket, table, lock, nextId, call, req, tx, res, stmts>>

\* the pending hook of the pre-chain calls back: with an error, which ends the
\* chain; or without, and the next hook is called, or after the last hook the
\* chain's callback copies the cookie to req and calls cb
preHookCallback(p) ==
  /\ pc[p] = "prechain"
  /\ \E effect \in PreEffects :
       LET n == hooks[p].pre
           c == Hook(cookie[p], effect)
       IN IF effect.do = "fail"
          THEN LET r == PreChainCallback(req[p], cookie[p], Err("HookError"))
               IN /\ hooks' = [hooks EXCEPT ![p].preFailed = n]
                  /\ req' = [req EXCEPT ![p] = r.req]
                  /\ cookie' = [cookie EXCEPT ![p] = NoCookie]
                  /\ Continue(p, r.err)
          ELSE IF n < Len(req[p].bucket.pre)
          THEN /\ cookie' = [cookie EXCEPT ![p] = c]
               /\ hooks' = [hooks EXCEPT ![p].pre = n + 1]
               /\ UNCHANGED <<pc, step, perr, req>>
          ELSE LET r == PreChainCallback(req[p], c, NoErr)
               IN /\ req' = [req EXCEPT ![p] = r.req]
                  /\ cookie' = [cookie EXCEPT ![p] = NoCookie]
                  /\ Continue(p, r.err)
                  /\ UNCHANGED hooks
  /\ UNCHANGED <<bucket, table, lock, nextId, call, tx, res, trace, stmts>>

\* common.checkEtag: an expected etag that is not the stored row's is a conflict
checkEtag(p) ==
  /\ At(p, "checkEtag")
  /\ Called(p, "checkEtag")
  /\ Continue(p, IF /\ req[p].etag # NoEtag
                    /\ req[p].previous.exists
                    /\ req[p].previous._etag # req[p].etag
                 THEN Err("EtagConflictError")
                 ELSE NoErr)
  /\ UNCHANGED <<bucket, table, lock, nextId, call, req, tx, res, stmts, hooks, cookie>>

indexObject(p) ==
  /\ At(p, "indexObject")
  /\ Called(p, "indexObject")
  /\ LET r == _indexObject(req[p].bucket.index, req[p].value)
     IN /\ req' = IF r.err.name = "none" THEN [req EXCEPT ![p].index = r.ndx] ELSE req
        /\ Continue(p, r.err)
  /\ UNCHANGED <<bucket, table, lock, nextId, call, tx, res, stmts, hooks, cookie>>

\* insert skipping on the test of update
InsertSkipsInverted(r) == ~r.previous.exists

\* if (req.previous) return (cb());
InsertSkips(r) == r.previous.exists

\* if (!req.previous) return (cb());
UpdateSkips(r) == ~r.previous.exists

\* the statement p has handed to pg.query and whose callback is due
Pending(p) == stmts[p][Len(stmts[p])]

\* the key whose row lock the pending statement of p waits for, if it waits
WaitsFor(p) ==
  IF /\ pc[p] = "updateQuery"
     /\ table[Pending(p).whereKey].exists
     /\ lock[Pending(p).whereKey] \notin {NoProc, p}
  THEN {Pending(p).whereKey}
  ELSE IF /\ pc[p] = "insertQuery"
          /\ ~table[Pending(p).values[1].k].exists
          /\ lock[Pending(p).values[1].k] \notin {NoProc, p}
  THEN {Pending(p).values[1].k}
  ELSE {}

\* p waits for a lock of a transaction that waits for a lock of p
Deadlocked(p) ==
  \E k \in WaitsFor(p) : \E k2 \in WaitsFor(lock[k]) : lock[k2] = p

\* the err of a statement the engine does not execute, NoErr if it executes it
StatementErr(fault, deadlocked, duplicate, bindable) ==
  IF fault THEN Err("DbError")
  ELSE IF deadlocked THEN Err("DeadlockDetected")
  ELSE IF duplicate THEN Err("UniqueViolation")
  ELSE IF ~bindable THEN Err("BindError")
  ELSE NoErr

\* a callback of pg.query that calls cb() whatever err it was given
InsertCallbackSwallows(err) == NoErr

\* function (err, result) of insert's pg.query: what it hands to cb
InsertCallback(err) == err

\* insert is called: cb() at once when a row was found; otherwise the
\* statement is handed to pg.query and insert returns
insert(p) ==
  /\ At(p, "insert")
  /\ Called(p, "insert")
  /\ IF InsertSkips(req[p])
     THEN /\ Continue(p, NoErr)
          /\ UNCHANGED stmts
     ELSE /\ stmts' = [stmts EXCEPT ![p] = Append(@, InsertStatement(req[p]))]
          /\ pc' = [pc EXCEPT ![p] = "insertQuery"]
          /\ UNCHANGED <<step, perr>>
  /\ UNCHANGED <<bucket, table, lock, nextId, call, req, tx, res, hooks, cookie>>

\* the engine has run the INSERT, or refused it, and pg.query calls back:
\* req.value._id is set from the row and cb is called, or cb(err)
insertQueryCallback(p) ==
  /\ pc[p] = "insertQuery"
  /\ WaitsFor(p) = {} \/ Deadlocked(p)
  /\ LET stmt == Pending(p)
         k == stmt.values[1].k
     IN \E fault \in BOOLEAN :
          LET err == StatementErr(fault, Deadlocked(p), table[k].exists,
                                  Bindable(stmt.placeholders, stmt.values))
          IN /\ IF err.name = "none"
                THEN /\ tx' = [tx EXCEPT ![p].writes[k] =
                                 InsertedRow(stmt, nextId, DOMAIN bucket.index)]
                     /\ lock' = [lock EXCEPT ![k] = p]
                     /\ nextId' = nextId + 1
                     /\ req' = [req EXCEPT ![p].value = Put(@, "_id", Num(nextId))]
                ELSE UNCHANGED <<req, tx, lock, nextId>>
             /\ Continue(p, InsertCallback(err))
  /\ UNCHANGED <<bucket, table, call, res, trace, stmts, hooks, cookie>>

\* update is called: cb() at once when no row was found; otherwise the
\* statement is handed to pg.query and update returns
update(p) ==
  /\ At(p, "update")
  /\ Called(p, "update")
  /\ IF UpdateSkips(req[p])
     THEN /\ Continue(p, NoErr)
          /\ UNCHANGED stmts
     ELSE /\ stmts' = [stmts EXCEPT ![p] = Append(@, UpdateStatement(req[p]))]
          /\ pc' = [pc EXCEPT ![p] = "updateQuery"]
          /\ UNCHANGED <<step, perr>>
  /\ UNCHANGED <<bucket, table, lock, nextId, call, req, tx, res, hooks, cookie>>

\* the engine has run the UPDATE, or refused it, and pg.query calls back: cb(err)
updateQueryCallback(p) ==
  /\ pc[p] = "updateQuery"
  /\ WaitsFor(p) = {} \/ Deadlocked(p)
  /\ LET stmt == Pending(p)
         k == stmt.whereKey
         phs == [i \in 1..Len(stmt.sets) |-> stmt.sets[i].ph]
     IN \E fault \in BOOLEAN :
          LET err == StatementErr(fault, Deadlocked(p), FALSE, Bindable(phs, stmt.values))
          IN /\ IF err.name = "none" /\ table[k].exists
                THEN /\ tx' = [tx EXCEPT ![p].writes[k] = UpdatedRow(stmt, table[k])]
                     /\ lock' = [lock EXCEPT ![k] = p]
                ELSE UNCHANGED <<tx, lock>>
             /\ Continue(p, err)
  /\ UNCHANGED <<bucket, table, nextId, call, req, res, trace, stmts, hooks, cookie>>

PostEffects == {Pass, Fail}

\* common.runPostChain is called: cb() at once for an empty chain; otherwise
\* the first hook of bucket.post is called with a cookie
runPostChain(p) ==
  /\ At(p, "runPostChain")
  /\ Called(p, "runPostChain")
  /\ IF Len(req[p].bucket.post) = 0
     THEN /\ Continue(p, NoErr)
          /\ UNCHANGED <<cookie, hooks>>
     ELSE /\ cookie' = [cookie EXCEPT ![p] = PreCookie(req[p])]
          /\ hooks' = [hooks EXCEPT ![p].post = 1]
          /\ pc' = [pc EXCEPT ![p] = "postchain"]
          /\ UNCHANGED <<step, perr>>
  /\ UNCHANGED <<bucket, table, lock, nextId, call, req, tx, res, stmts>>

\* the pending hook of the post-chain calls back: with an error, which ends
\* the chain; or without, and the next hook is called, or the chain is over
postHookCallback(p) ==
  /\ pc[p] = "postchain"
  /\ \E effect \in PostEffects :
       LET n == hooks[p].post
       IN IF effect.do = "fail"
          THEN /\ hooks' = [hooks EXCEPT ![p].postFailed = n]
               /\ cookie' = [cookie EXCEPT ![p] = NoCookie]
               /\ Continue(p, Err("HookError"))
          ELSE IF n < Len(req[p].bucket.post)
          THEN /\ hooks' = [hooks EXCEPT ![p].post = n + 1]
               /\ UNCHANGED <<pc, step, perr, cookie>>
          ELSE /\ cookie' = [cookie EXCEPT ![p] = NoCookie]
               /\ Continue(p, NoErr)
               /\ UNCHANGED hooks
  /\ UNCHANGED <<bucket, table, lock, nextId, call, req, tx, res, trace, stmts>>

\* the locks with those of p released
Released(p) == [k \in KeySet |-> IF lock[k] = p THEN NoProc ELSE lock[k]]

\* common.pipelineCallback: rollback and res.end(err) on an err, else commit
\* and res.end()
pipelineCallback(p) ==
  /\ pc[p] = "callback"
  /\ IF perr[p].name # "none"
     THEN /\ tx' = [tx EXCEPT ![p].state = "rolledback",
                              ![p].writes = NoTx.writes,
                              ![p].ends = Append(@, "rollback")]
          /\ UNCHANGED table
     ELSE /\ tx' = [tx EXCEPT ![p].state = "committed",
                              ![p].ends = Append(@, "commit")]
          /\ table' = [k \in KeySet |->
                         IF tx[p].writes[k].exists THEN tx[p].writes[k] ELSE table[k]]
  /\ lock' = Released(p)
  /\ res' = [res EXCEPT ![p] = Append(@, [err |-> perr[p]])]
  /\ pc' = [pc EXCEPT ![p] = "done"]
  /\ UNCHANGED <<bucket, nextId, call, step, req, perr, trace, stmts, hooks, cookie>>

(***************************************************************************)
(* The initial states: a bucket, the rows earlier writes left, and the     *)
(* putObject calls of the clients.                                         *)
(***************************************************************************)
\* the row a successful putObject(b, k, v) left in an empty table of bucket bk
SeedRow(bk, k, v, id) ==
  LET r == [bucket |-> bk, key |-> k, _value |-> Stringify(v),
            index |-> _indexObject(bk.index, v).ndx]
  IN InsertedRow(InsertStatement(r), id, DOMAIN bk.index)

\* the etag of the row of document v
EtagOf(v) == _createEtag([_value |-> Stringify(v)])

Call(k, v, etag) ==
  [active |-> TRUE, b |-> BucketName, k |-> k, v |-> v,
   opts |-> [etag |-> etag, _value |-> Stringify(v)]]

Calls ==
  {Call(k, v, etag) : k \in KeySet, v \in Docs, etag \in {NoEtag, EtagOf(DocA), EtagOf(DocC)}}

InitWith(buckets, calls1, calls2) ==
  /\ bucket \in buckets
  /\ table \in {[k \in KeySet |-> IF k = "u1" THEN r1 ELSE r2] :
                  r1 \in {NoRow, SeedRow(bucket, "u1", DocA, 1)},
                  r2 \in {NoRow, SeedRow(bucket, "u2", DocC, 2)}}
  /\ lock = [k \in KeySet |-> NoProc]
  /\ nextId = 3
  /\ call \in {[p \in Procs |-> IF p = "p1" THEN c1 ELSE c2] : c1 \in calls1, c2 \in calls2}
  /\ pc = [p \in Procs |-> "idle"]
  /\ step = [p \in Procs |-> 0]
  /\ req = [p \in Procs |-> NoReq]
  /\ perr = [p \in Procs |-> NoErr]
  /\ tx = [p \in Procs |-> NoTx]
  /\ res = [p \in Procs |-> <<>>]
  /\ trace = [p \in Procs |-> <<>>]
  /\ stmts = [p \in Procs |-> <<>>]
  /\ hooks = [p \in Procs |-> [pre |-> 0, post |-> 0, preFailed |-> 0, postFailed |-> 0]]
  /\ cookie = [p \in Procs |-> NoCookie]

\* one client writing
Init == InitWith(Buckets, Calls, {NoCall})

Step(p) ==
  \/ _put(p)
  \/ loadBucket(p)
  \/ selectForUpdate(p)
  \/ runPreChain(p)
  \/ preHookCallback(p)
  \/ checkEtag(p)
  \/ indexObject(p)
  \/ insert(p)
  \/ insertQueryCallback(p)
  \/ update(p)
  \/ updateQueryCallback(p)
  \/ runPostChain(p)
  \/ postHookCallback(p)
  \/ pipelineCallback(p)

Next == \E p \in Procs : Step(p)

Spec == Init /\ [][Next]_vars


\* two clients writing at once, to a bucket indexing email
ConcBuckets ==
  {[name |-> BucketName, index |-> [email |-> [type |-> "string"]],
    pre |-> HookChain(n), post |-> HookChain(n)] : n \in 0..1}

ConcCalls ==
  {Call(k, v, etag) : k \in KeySet, v \in {DocA, DocC, DocAge}, etag \in {NoEtag, EtagOf(DocA)}}

InitConc ==
  /\ InitWith(ConcBuckets, ConcCalls, ConcCalls)
  /\ table["u1"].exists
  /\ ~table["u2"].exists

ConcSpec == InitConc /\ [][Next]_vars

\* two clients writing at once, to a bucket with one hook in each chain, of
\* which every step may fail
LiveBuckets ==
  {[name |-> BucketName, index |-> [email |-> [type |-> "string"]],
    pre |-> HookChain(1), post |-> HookChain(1)]}

LiveCalls == {Call("u1", DocA, NoEtag)}

LiveEtagCalls == {Call(k, DocObj, EtagOf(DocC)) : k \in KeySet}

InitLive ==
  /\ InitWith(LiveBuckets, LiveCalls, LiveEtagCalls)
  /\ table["u1"].exists

\* every callback that is due is called: the event loop runs what is ready, and
\* the engine and the hooks answer
FairSpec == InitLive /\ [][Next]_vars /\ \A p \in Procs : WF_vars(Step(p))

\* one client writing to buckets that index several fields, of every declared
\* type and of a type that is none of boolean, string, number
BuildSchemas ==
  {EmptyObject,
   [email |-> [type |-> "string"], age |-> [type |-> "number"], flag |-> [type |-> "boolean"]],
   [email |-> [type |-> "date"], age |-> [type |-> "number"]],
   [tag |-> [type |-> "string"]]}

BuildBuckets ==
  {[name |-> BucketName, index |-> s, pre |-> HookChain(n), post |-> HookChain(n)] :
     s \in BuildSchemas, n \in 0..1}

\* a call whose opts._value is the serialization of another document than v
StaleCall(k, v, other) ==
  [active |-> TRUE, b |-> BucketName, k |-> k, v |-> v,
   opts |-> [etag |-> NoEtag, _value |-> Stringify(other)]]

BuildCalls ==
  {Call(k, v, NoEtag) : k \in KeySet, v \in BuildDocs}
    \cup {StaleCall(k, DocA, DocC) : k \in KeySet}

InitBuild == InitWith(BuildBuckets, BuildCalls, {NoCall})

BuildSpec == InitBuild /\ [][Next]_vars

(***************************************************************************)
(* The claims.                                                             *)
(***************************************************************************)
Done(p) == pc[p] = "done"

Succeeded(p) == Done(p) /\ res[p] = <<[err |-> NoErr]>>

FailedWith(p, name) == Done(p) /\ Len(res[p]) = 1 /\ res[p][1].err.name = name

InTrace(p, f) == \E i \in 1..Len(trace[p]) : trace[p][i] = f

IsPrefix(a, b) == Len(a) <= Len(b) /\ \A i \in 1..Len(a) : a[i] = b[i]

\* C1: a run hands pg.query at most one statement, an INSERT exactly when the
\* locking read found no row and an UPDATE exactly when it found one, and a
\* run that succeeds has handed it one.
C1_ExactlyOnePath ==
  \A p \in Procs :
    /\ Len(stmts[p]) <= 1
    /\ \A i \in 1..Len(stmts[p]) :
         /\ stmts[p][i].op = "insert" <=> ~req[p].previous.exists
         /\ stmts[p][i].op = "update" <=> req[p].previous.exists
    /\ Succeeded(p) => Len(stmts[p]) = 1

C1_Witness ==
  \E p \in Procs : Succeeded(p) /\ stmts[p][1].op = "update" /\ req[p].previous.exists

\* the caller's expected etag is not the etag of the row the locking read found
Mismatch(p) ==
  /\ req[p].active
  /\ req[p].etag # NoEtag
  /\ req[p].previous.exists
  /\ req[p].previous._etag # req[p].etag

\* C2: when the expected etag is not the stored row's, the run calls none of
\* indexObject, insert, update, runPostChain and executes no statement; once
\* checkEtag is called the run's error is the etag conflict; and the run ends
\* in that error being reported with the stored row as it was.
C2_MismatchAborts ==
  \A p \in Procs :
    Mismatch(p) =>
      /\ ~InTrace(p, "indexObject") /\ ~InTrace(p, "insert")
      /\ ~InTrace(p, "update") /\ ~InTrace(p, "runPostChain")
      /\ stmts[p] = <<>>
      /\ InTrace(p, "checkEtag") => perr[p].name = "EtagConflictError"
      /\ Done(p) => /\ ~Succeeded(p)
                    /\ InTrace(p, "checkEtag") => FailedWith(p, "EtagConflictError")
                    /\ table[call[p].k] = req[p].previous
                    /\ tx[p].ends = <<"rollback">>

C2_Witness ==
  \E p \in Procs : Mismatch(p) /\ FailedWith(p, "EtagConflictError")

\* C3: when a hook of the pre-chain signals an error, no later hook of the
\* chain runs, no statement is executed, insert, update and the post-chain are
\* not called, and the caller gets that error.
C3_PreHookErrorAborts ==
  \A p \in Procs :
    hooks[p].preFailed > 0 =>
      /\ hooks[p].pre = hooks[p].preFailed
      /\ stmts[p] = <<>>
      /\ hooks[p].post = 0
      /\ ~InTrace(p, "insert") /\ ~InTrace(p, "update") /\ ~InTrace(p, "runPostChain")
      /\ perr[p].name = "HookError"
      /\ Done(p) => res[p] = <<[err |-> Err("HookError")]>>

C3_Witness ==
  \E p \in Procs :
    /\ Done(p)
    /\ hooks[p].preFailed = 1
    /\ Len(req[p].bucket.pre) = 2
    /\ res[p] = <<[err |-> Err("HookError")]>>

\* C4: a transaction is ended at most once; a request that is over and had one
\* has ended it exactly once, by commit exactly when no step failed and by
\* rollback otherwise; and every open transaction is eventually ended.
C4_TransactionReleased ==
  /\ [](\A p \in Procs :
          /\ Len(tx[p].ends) <= 1
          /\ (Done(p) /\ tx[p].state # "none") =>
               /\ Len(tx[p].ends) = 1
               /\ tx[p].ends[1] = "commit" <=> perr[p].name = "none"
               /\ tx[p].ends[1] = "rollback" <=> perr[p].name # "none"
               /\ tx[p].state = (IF perr[p].name = "none" THEN "committed" ELSE "rolledback"))
  /\ \A p \in Procs :
       (tx[p].state = "open") ~> (Done(p) /\ tx[p].state \in {"committed", "rolledback"})

C4_Witness ==
  \E p \in Procs :
    /\ Done(p)
    /\ tx[p].ends = <<"rollback">>
    /\ perr[p].name = "DbError"
    /\ Len(stmts[p]) = 1

\* the etag of the row of u1 that two clients writing at once start from
T1 == EtagOf(DocA)

\* p was called for u1 expecting T1
Contender(p) == call[p].active /\ call[p].k = "u1" /\ call[p].opts.etag = T1

\* p committed an update of the row of u1 to a value whose etag is not T1
WroteNew(p) ==
  /\ Succeeded(p)
  /\ Len(stmts[p]) = 1
  /\ stmts[p][1].op = "update"
  /\ stmts[p][1].whereKey = "u1"
  /\ stmts[p][1].values[2].s # T1

\* C5, as amended: of two pipelines called for the same key expecting the
\* stored etag T1, at most one commits an update of that key's row to a value
\* whose etag is not T1; the other, once its locking read has seen that write,
\* fails with the etag conflict at checkEtag.
C5_OneWriterWins ==
  \A p, q \in Procs :
    (p # q /\ Contender(p) /\ Contender(q)) =>
      /\ ~(WroteNew(p) /\ WroteNew(q))
      /\ (/\ WroteNew(p)
          /\ Done(q)
          /\ req[q].active
          /\ req[q].previous.exists
          /\ req[q].previous._etag # T1
          /\ InTrace(q, "checkEtag")) => FailedWith(q, "EtagConflictError")

C5_Witness ==
  \E p, q \in Procs :
    /\ p # q /\ Contender(p) /\ Contender(q)
    /\ call[p].v # call[q].v
    /\ WroteNew(p)
    /\ FailedWith(q, "EtagConflictError")
    /\ table["u1"]._value = Stringify(call[p].v)

\* C5, as claimed: of two pipelines called for the same key with different
\* values, both expecting the stored etag T1, at most one commits (here for a
\* bucket with no pre-hook).
C5_AsClaimed ==
  \A p, q \in Procs :
    (/\ p # q /\ Contender(p) /\ Contender(q)
     /\ call[p].v # call[q].v
     /\ bucket.pre = <<>>) => ~(Succeeded(p) /\ Succeeded(q))

\* a declared field holds a value, neither null nor an array, whose type is
\* not the declared one
TypeMismatch(schema, v) ==
  \E k \in DOMAIN schema :
    /\ Get(v, k).t \notin {"undefined", "null", "array"}
    /\ TypeOf(Get(v, k)) # schema[k].type

\* C6, as claimed: when a declared field's value is neither null nor an array
\* and not of the declared type, indexObject fails with InvalidIndexTypeError
\* and no statement is executed.
C6_AsClaimed ==
  \A p \in Procs :
    (/\ InTrace(p, "indexObject")
     /\ TypeMismatch(req[p].bucket.index, req[p].value)) =>
      /\ perr[p].name = "InvalidIndexTypeError"
      /\ stmts[p] = <<>>

\* C7, as claimed: when a post-hook fails after the statement succeeded, the
\* caller gets the error and the transaction is committed.
C7_AsClaimed ==
  \A p \in Procs :
    (Done(p) /\ hooks[p].postFailed > 0) =>
      /\ res[p] = <<[err |-> Err("HookError")]>>
      /\ tx[p].ends = <<"commit">>

\* the etag res.end was given, if any
ReportedEtag(p) == IF "etag" \in DOMAIN res[p][1] THEN res[p][1].etag ELSE NoEtag

\* C8, as claimed: after a successful putObject the etag reported to the
\* caller is the etag of the serialized value the statement persisted.
C8_AsClaimed ==
  \A p \in Procs :
    (Succeeded(p) /\ Len(stmts[p]) = 1) =>
      LET persisted == IF stmts[p][1].op = "insert" THEN stmts[p][1].values[2].s
                       ELSE stmts[p][1].values[1].s
      IN ReportedEtag(p) = Hex32(Crc32(persisted))

\* the order of the steps
PipelineOrder ==
  <<"loadBucket", "selectForUpdate", "runPreChain", "checkEtag",
    "indexObject", "insert", "update", "runPostChain">>

\* C9: the steps a run has called are the first ones of the order, each called
\* after the one before it called back without error; a failed precondition or
\* projection leaves no statement executed; and once a step has failed the run
\* calls no step and executes no statement.
C9_SequentialPipeline ==
  /\ [](\A p \in Procs :
          /\ IsPrefix(trace[p], PipelineOrder)
          /\ pc[p] = "pipeline" => (perr[p].name = "none" /\ Len(trace[p]) = step[p] - 1)
          /\ perr[p].name \in {"EtagConflictError", "InvalidIndexTypeError"} =>
               stmts[p] = <<>>)
  /\ [][\A p \in Procs :
          perr[p].name # "none" => (trace'[p] = trace[p] /\ stmts'[p] = stmts[p])]_vars

C9_Witness ==
  \E p \in Procs :
    /\ FailedWith(p, "InvalidIndexTypeError")
    /\ trace[p] = <<"loadBucket", "selectForUpdate", "runPreChain", "checkEtag", "indexObject">>

\* C10, as claimed: after a successful run whose pre-chain ran, the row of the
\* key the hooks left holds the serialization of the value they left.
C10_AsClaimed ==
  \A p \in Procs :
    (Succeeded(p) /\ hooks[p].pre > 0) =>
      /\ table[req[p].key].exists
      /\ table[req[p].key]._value = req[p]._value

\* the assignment of column c in an UPDATE statement, as a set of one or none
SetOf(stmt, c) == {stmt.sets[i] : i \in {j \in 1..Len(stmt.sets) : stmt.sets[j].col = c}}

\* C11, as claimed: an update statement assigns every declared field, and a
\* field is set to NULL exactly when the projection has no entry for it (so
\* an entry that is the empty string is bound, not replaced by NULL).
C11_AsClaimed ==
  \A p \in Procs : \A i \in 1..Len(stmts[p]) :
    stmts[p][i].op = "update" =>
      \A k \in DOMAIN bucket.index :
        bucket.index[k].type \in {"boolean", "string", "number"} =>
          /\ Cardinality(SetOf(stmts[p][i], k)) = 1
          /\ \A a \in SetOf(stmts[p][i], k) : a.null <=> k \notin DOMAIN req[p].index

\* every field of the schema is declared boolean, string or number
Typed(schema) == \A k \in DOMAIN schema : schema[k].type \in {"boolean", "string", "number"}

\* the parameter that carries the projected string s of a field declared t:
\* the upper-case literal, the parsed integer, the string itself
Encoded(t, s) ==
  CASE t = "boolean" -> PText(toUpperCase(s))
    [] t = "number" -> parseInt(s)
    [] t = "string" -> PText(s)

\* the parameters a statement binds to column c, as a set of one or none
BoundTo(stmt, c) ==
  IF stmt.op = "insert"
  THEN {stmt.values[stmt.placeholders[i]] :
          i \in {j \in 1..Len(stmt.columns) : stmt.columns[j] = c}}
  ELSE {stmt.values[a.ph] : a \in {b \in SetOf(stmt, c) : ~b.null}}

\* C12, as claimed: in every statement, INSERT or UPDATE, of a bucket whose
\* fields are declared boolean, string or number, for a document whose values
\* are of the declared types, the parameter bound to an indexed column is the
\* projected value encoded by the declared type.
C12_AsClaimed ==
  \A p \in Procs : \A i \in 1..Len(stmts[p]) :
    (Typed(bucket.index) /\ ~TypeMismatch(bucket.index, req[p].value)) =>
      \A k \in DOMAIN req[p].index :
        \A v \in BoundTo(stmts[p][i], k) : v = Encoded(bucket.index[k].type, req[p].index[k])

\* indexObject has run and did not throw
Projected(p) == InTrace(p, "indexObject") /\ perr[p].name # "InvalidIndexTypeError"

\* the declared fields whose value in the pipeline's document is an array
ArrayFields(p) ==
  {k \in DOMAIN bucket.index : req[p].active /\ Get(req[p].value, k).t = "array"}

RECURSIVE Leaves(_)
\* the elements of an array in order, those of nested arrays in their place,
\* without the nulls
Leaves(a) ==
  IF a = <<>> THEN <<>>
  ELSE (CASE Head(a).t = "array" -> Leaves(Head(a).a)
          [] Head(a).t = "null" -> <<>>
          [] OTHER -> <<Head(a)>>) \o Leaves(Tail(a))

\* C13, as claimed: for a declared field whose value is an array, every
\* element is validated against the declared type, so indexObject fails
\* with InvalidIndexTypeError, and no statement is executed, when an element
\* is not of that type; otherwise projection succeeds and the entry of the
\* field is the string form of the last element.  Elements are taken as the
\* projector's rules for null and for arrays give them: a null is omitted,
\* a nested array stands for its elements.
C13_AsClaimed ==
  \A p \in Procs : \A k \in ArrayFields(p) :
    (InTrace(p, "indexObject") /\ bucket.index[k].type \in {"boolean", "string", "number"}) =>
      LET leaves == Leaves(req[p].value[k].a)
      IN IF \E i \in 1..Len(leaves) : TypeOf(leaves[i]) # bucket.index[k].type
         THEN perr[p].name = "InvalidIndexTypeError" /\ stmts[p] = <<>>
         ELSE /\ Projected(p)
              /\ IF leaves = <<>> THEN k \notin DOMAIN req[p].index
                 ELSE /\ k \in DOMAIN req[p].index
                      /\ req[p].index[k] = ToStr(leaves[Len(leaves)])

\* the declared fields whose value in the pipeline's document is null
NullFields(p) ==
  {k \in DOMAIN bucket.index : req[p].active /\ Get(req[p].value, k).t = "null"}

\* C14: once indexObject has run, a declared field whose value is null has no
\* entry in the projection and is not the field of an InvalidIndexTypeError,
\* whatever its declared type; a document whose declared fields are all null
\* or missing is projected without error.
C14_NullOmitted ==
  \A p \in Procs :
    InTrace(p, "indexObject") =>
      /\ \A k \in NullFields(p) :
           /\ k \notin DOMAIN req[p].index
           /\ perr[p].name = "InvalidIndexTypeError" => perr[p].k # k
      /\ (\A k \in DOMAIN bucket.index : Get(req[p].value, k).t \in {"null", "undefined"}) =>
           Projected(p)

C14_Witness ==
  \E p \in Procs :
    /\ Succeeded(p)
    /\ NullFields(p) = {"email", "age", "flag"}
    /\ {bucket.index[k].type : k \in NullFields(p)} = {"string", "number", "boolean"}
    /\ DOMAIN req[p].index = {}
    /\ Len(stmts[p]) = 1

\* the columns every INSERT names before the index columns
BaseColumns == {"_key", "_value", "_etag", "_mtime"}

\* C15: the projection of a request only has keys that the bucket's schema
\* declares, so it is empty for an empty schema, and the statements name no
\* other index column.
C15_ProjectionWithinSchema ==
  \A p \in Procs :
    req[p].active =>
      /\ DOMAIN req[p].index \subseteq DOMAIN bucket.index
      /\ DOMAIN bucket.index = {} => req[p].index = EmptyObject
      /\ \A i \in 1..Len(stmts[p]) :
           stmts[p][i].op = "insert" =>
             {stmts[p][i].columns[j] : j \in 1..Len(stmts[p][i].columns)}
               \subseteq BaseColumns \cup DOMAIN bucket.index

C15_Witness ==
  \E p \in Procs :
    /\ Succeeded(p)
    /\ "flag" \in DOMAIN req[p].value
    /\ DOMAIN bucket.index = {"email", "age"}
    /\ DOMAIN req[p].index = {"email", "age"}
    /\ Len(stmts[p]) = 1

\* the errors of the data engine
EngineErrors == {Err("UniqueViolation"), Err("DbError"), Err("DeadlockDetected")}

\* p found no row for the absent key u2 and has executed an INSERT for it
InsertedAbsent(p) ==
  /\ call[p].active /\ call[p].k = "u2"
  /\ req[p].active /\ ~req[p].previous.exists
  /\ Len(stmts[p]) = 1
  /\ stmts[p][1].op = "insert"
  /\ stmts[p][1].values[1] = PKey("u2")

\* C16: of two pipelines that both found no row for the same key and both
\* executed an INSERT for it, at most one commits; when one has committed, the
\* other ended rolled back, with the engine's error as the engine gave it
\* (unless a hook of its own post-chain failed it after its INSERT), and the
\* key's one row is the row of the INSERT that committed.
C16_OneInsertWins ==
  \A p, q \in Procs :
    (p # q /\ InsertedAbsent(p) /\ InsertedAbsent(q) /\ Done(p) /\ Done(q)) =>
      /\ ~(Succeeded(p) /\ Succeeded(q))
      /\ Succeeded(p) =>
           /\ Len(res[q]) = 1
           /\ hooks[q].postFailed = 0 => res[q][1].err \in EngineErrors
           /\ hooks[q].postFailed > 0 => res[q][1].err = Err("HookError")
           /\ tx[q].ends = <<"rollback">>
           /\ table["u2"].exists
           /\ table["u2"]._value = stmts[p][1].values[2].s
           /\ table["u2"]._id = req[p].value["_id"].n

C16_Witness ==
  \E p, q \in Procs :
    /\ p # q /\ InsertedAbsent(p) /\ InsertedAbsent(q)
    /\ Succeeded(p)
    /\ res[q] = <<[err |-> Err("UniqueViolation")]>>
    /\ tx[q].ends = <<"rollback">>
    /\ table["u2"].exists

\* the key a statement names: the first parameter of an INSERT, the key in the
\* WHERE clause of an UPDATE
StatementKey(stmt) == IF stmt.op = "insert" THEN stmt.values[1].k ELSE stmt.whereKey

\* C17, as claimed: every statement a run executes names the key the run was
\* called for, which is the key whose row the locking read fetched and locked
\* and from which insert or update was chosen.
C17_AsClaimed ==
  \A p \in Procs : \A i \in 1..Len(stmts[p]) : StatementKey(stmts[p][i]) = call[p].k

\* the pipeline's current document, without the _id that insert adds to it
\* after its statement
CurrentValue(p) == [k \in DOMAIN req[p].value \ {"_id"} |-> req[p].value[k]]

\* the serialized value and the etag a statement persists
PersistedValue(stmt) == IF stmt.op = "insert" THEN stmt.values[2].s ELSE stmt.values[1].s

PersistedEtag(stmt) == IF stmt.op = "insert" THEN stmt.values[3].s ELSE stmt.values[2].s

\* C18, as claimed: every statement executed persists the serialization of
\* the pipeline's current value, and as etag the etag of that serialization,
\* with an empty pre-chain as with a non-empty one.
C18_AsClaimed ==
  \A p \in Procs : \A i \in 1..Len(stmts[p]) :
    /\ PersistedValue(stmts[p][i]) = Stringify(CurrentValue(p))
    /\ PersistedEtag(stmts[p][i]) = EtagOf(CurrentValue(p))

\* the placeholder numbers of a statement, in the order they appear in its text
PlaceholdersOf(stmt) ==
  IF stmt.op = "insert" THEN stmt.placeholders
  ELSE LET bound == SelectSeq(stmt.sets, LAMBDA a : ~a.null)
       IN [i \in 1..Len(bound) |-> bound[i].ph]

\* C19, as claimed: in every statement the placeholders are $1..$n in order,
\* without gaps, and n values are bound, for every schema, the fields declared
\* with a type that is none of boolean, string, number included.
C19_AsClaimed ==
  \A p \in Procs : \A i \in 1..Len(stmts[p]) :
    /\ PlaceholdersOf(stmts[p][i]) = [j \in 1..Len(PlaceholdersOf(stmts[p][i])) |-> j]
    /\ Len(stmts[p][i].values) = Len(PlaceholdersOf(stmts[p][i]))

\* manatee.start gave p no transaction
StartFailed(p) == call[p].active /\ pc[p] # "idle" /\ tx[p].state = "none"

\* C20: a request whose manatee.start failed is over, its caller has been
\* given that error and nothing else, no step of the pipeline and no hook has
\* run, no statement was executed and no transaction was committed or rolled
\* back; and no request ever answers its caller twice.
C20_StartFailure ==
  \A p \in Procs :
    /\ Len(res[p]) <= 1
    /\ StartFailed(p) =>
         /\ Done(p)
         /\ res[p] = <<[err |-> Err("NoDatabaseError")]>>
         /\ trace[p] = <<>>
         /\ stmts[p] = <<>>
         /\ hooks[p] = [pre |-> 0, post |-> 0, preFailed |-> 0, postFailed |-> 0]
         /\ tx[p].ends = <<>>
         /\ ~req[p].active
         /\ \A k \in KeySet : lock[k] # p

C20_Witness ==
  \E p \in Procs :
    /\ StartFailed(p)
    /\ Done(p)
    /\ res[p] = <<[err |-> Err("NoDatabaseError")]>>
    /\ bucket.pre # <<>>
    /\ table[call[p].k].exists
=============================================================================
